---- MODULE Spec2Model ----
(***************************************************************************)
(* Record layer of the armour password database (armour/pdb/entries.py):   *)
(* the entry classes PdbEntry / PdbRawEntry / PdbPwdEntry, their field     *)
(* framing and keyed tag, and the collection PdbEntries with gather,       *)
(* add_entry and commit.                                                   *)
(*                                                                         *)
(* A byte on the wire is a record [b, h]: b is its numeric value, h is     *)
(* empty for an ordinary byte and holds the hashed data for a byte of a    *)
(* digest, so that two digests are equal exactly when the hashed data are  *)
(* equal (the keyed hash of the crypt module is taken as collision free).  *)
(***************************************************************************)
EXTENDS Integers, Sequences, FiniteSets, TLC

VARIABLES
    entry_id,   \* PdbEntry.entry_id, the class-level counter
    objs,       \* the live entry objects, by reference (index)
    ents,       \* PdbEntries.ents, a list of references into objs
    blob,       \* head.entries, the decrypted entries blob of the header
    op,         \* the operation that ran last
    err,        \* the exception it ended with, or "none"
    arg,        \* what it was called with and what it observed
    snap,       \* the raw field mappings of ents at the last commit
    areas,      \* the field area of each record of the committed blob
    tam,        \* the record of the blob a byte was changed in, 0 when none
    nsets,      \* the number of set_field calls so far
    pc,         \* per thread: the next step of the constructor it runs
    loc,        \* per thread: the value it read from the counter
    made        \* per thread: the entry_id values of the entries it built

vars == <<entry_id, objs, ents, blob, op, err, arg, snap, areas, tam, nsets,
          pc, loc, made>>

(***************************************************************************)
(* Bounds of the model.                                                    *)
(***************************************************************************)
MaxLen == 1      \* longest field value a caller passes
MaxObjs == 2     \* entry objects alive at once
MaxIds == 4      \* entries constructed in one run of the collection model
MaxSets == 1     \* set_field calls in one run of the collection model
MaxBuilt == 2    \* entries each thread constructs
DS == 2          \* head.ds(), the digest size in bytes
MaxNonce == 1    \* distinct header bytes the cipher draws from

(***************************************************************************)
(* Bytes, the struct helpers, the hash and the cipher.                     *)
(***************************************************************************)
BL == 1          \* s.BL, the width of a field identifier
LSize == 4       \* the width of s.L, the length prefix

PB(n) == [b |-> n, h |-> <<>>]

NUL == PB(0)
FN == PB(110)
FU == PB(117)
FP == PB(112)
FR == PB(114)

Min(a, b) == IF a < b THEN a ELSE b

\* BytesIO.read(n) at position pos (1-based): short at the end of the buffer
read(buf, pos, n) == SubSeq(buf, pos, Min(pos + n - 1, Len(buf)))

pack(n) ==
    << PB(n % 256), PB((n \div 256) % 256),
       PB((n \div 65536) % 256), PB((n \div 16777216) % 256) >>

unpack(bs) ==
    bs[1].b + 256 * bs[2].b + 65536 * bs[3].b + 16777216 * bs[4].b

\* s.sunpack(s.L, b): reads LSize bytes and unpacks them; a short read raises
sunpack(buf, pos) ==
    LET bs == read(buf, pos, LSize)
    IN  IF Len(bs) < LSize
        THEN [err |-> "FormatError", n |-> 0]
        ELSE [err |-> "none", n |-> unpack(bs)]

RECURSIVE SumB(_)
SumB(data) == IF data = <<>> THEN 0 ELSE (data[1].b + SumB(Tail(data))) % 128

hash_walgo(data) ==
    [i \in 1..DS |-> [b |-> (SumB(data) + i) % 128, h |-> data]]

hash_walgo_compare(data, ehash) == hash_walgo(data) = ehash

Nonces == 1..MaxNonce

\* crypt.encrypt_secure: a header byte chosen per call, then the masked bytes
encrypt_secure(value, nonce) ==
    <<PB(nonce)>> \o
        [i \in 1..Len(value) |-> [value[i] EXCEPT !.b = (@ + nonce) % 128]]

\* crypt.decrypt_secure: fails on data that no encrypt_secure call produced
decrypt_secure(ct) ==
    IF Len(ct) = 0 \/ ct[1] \notin {PB(k) : k \in Nonces}
    THEN [err |-> "DecryptionError", v |-> <<>>]
    ELSE [err |-> "none",
          v |-> [i \in 1..(Len(ct) - 1) |->
                    [ct[i + 1] EXCEPT !.b = (@ + 128 - ct[1].b) % 128]]]

(***************************************************************************)
(* PdbEntry and its two variants.  An entry is a record                    *)
(* [kind, entry_id, ehash, fields]; fields is the dict as the list of its  *)
(* <<name, value>> items in insertion order.                               *)
(***************************************************************************)
all_fields == <<FN, FU, FP, FR>>
encrypted_fields == {FU, FP}

Kinds == {"raw", "pwd"}

Contains(e, name) == \E i \in 1..Len(e.fields) : e.fields[i][1] = name

set_field_raw(e, name, value) ==
    IF Contains(e, name)
    THEN [e EXCEPT !.fields =
            [i \in 1..Len(e.fields) |->
                IF e.fields[i][1] = name THEN <<name, value>> ELSE e.fields[i]]]
    ELSE [e EXCEPT !.fields = Append(@, <<name, value>>)]

get_field_raw(e, name) ==
    IF Contains(e, name)
    THEN [err |-> "none",
          v |-> (CHOOSE f \in {e.fields[i] : i \in 1..Len(e.fields)} :
                    f[1] = name)[2]]
    ELSE [err |-> "KeyError", v |-> <<>>]

set_crypt(e, name, value, nonce) ==
    set_field_raw(e, name, encrypt_secure(value, nonce))

get_crypt(e, name) ==
    LET r == get_field_raw(e, name)
    IN  IF r.err # "none" THEN r ELSE decrypt_secure(r.v)

\* set_field without the branch on encrypted_fields
set_field_plain(e, name, value, nonce) == set_field_raw(e, name, value)

set_field(e, name, value, nonce) ==
    IF e.kind = "pwd" /\ name \in encrypted_fields
    THEN set_crypt(e, name, value, nonce)
    ELSE set_field_raw(e, name, value)

get_field(e, name) ==
    IF e.kind = "pwd" /\ name \in encrypted_fields
    THEN get_crypt(e, name)
    ELSE get_field_raw(e, name)

RECURSIVE encode(_)
encode(fields) ==
    IF fields = <<>> THEN <<>>
    ELSE <<fields[1][1]>> \o pack(Len(fields[1][2])) \o fields[1][2]
            \o encode(Tail(fields))

entry(e) == encode(e.fields)

\* full_entry without the closing NULL
full_entry_open(e) == e.ehash \o entry(e)

full_entry(e) == e.ehash \o entry(e) \o <<NUL>>

rehash(e) == [e EXCEPT !.ehash = hash_walgo(entry(e))]

hash_ok(e) == hash_walgo_compare(entry(e), e.ehash)

\* revalidate that never raises
revalidate_off(e) == "none"

revalidate(e) == IF hash_ok(e) THEN "none" ELSE "DataIntegrityError"

\* validate_struct with any() in place of all()
validate_struct_any(e) ==
    IF e.kind = "pwd" /\ ~(\E i \in 1..Len(all_fields) : Contains(e, all_fields[i]))
    THEN "StructureError"
    ELSE "none"

validate_struct(e) ==
    IF e.kind = "pwd" /\ ~(\A i \in 1..Len(all_fields) : Contains(e, all_fields[i]))
    THEN "StructureError"
    ELSE "none"

\* the two gates in the other order
admit_struct_first(e) ==
    IF validate_struct(e) # "none" THEN validate_struct(e) ELSE revalidate(e)

\* entry.revalidate().validate_struct(), as gather and add_entry call it
admit(e) ==
    IF revalidate(e) # "none" THEN revalidate(e) ELSE validate_struct(e)

\* PdbEntry.__init__ without the fields argument
new_entry(kind, id, ehash) ==
    [kind |-> kind, entry_id |-> id, ehash |-> ehash, fields |-> <<>>]

\* the loop of __init__ over fields.items(): self[field] = value
RECURSIVE init_fields(_, _, _)
init_fields(e, items, ns) ==
    IF items = <<>> THEN e
    ELSE LET crypt == e.kind = "pwd" /\ items[1][1] \in encrypted_fields
         IN  init_fields(set_field(e, items[1][1], items[1][2],
                                   IF crypt THEN ns[1] ELSE 1),
                         Tail(items),
                         IF crypt THEN Tail(ns) ELSE ns)

\* from_entry: the loop over the buffer; short is set when a value was stored
\* with fewer bytes than its length prefix declares
RECURSIVE from_entry(_, _, _, _, _)
from_entry(e, buf, pos, ns, short) ==
    LET ident == read(buf, pos, BL)
    IN  IF ident = <<NUL>>
        THEN [e |-> e, err |-> "none", short |-> short]
        ELSE LET n == sunpack(buf, pos + BL)
             IN  IF n.err # "none"
                 THEN [e |-> e, err |-> n.err, short |-> short]
                 ELSE LET value == read(buf, pos + BL + LSize, n.n)
                          crypt == e.kind = "pwd" /\ ident[1] \in encrypted_fields
                      IN  from_entry(
                              set_field(e, ident[1], value,
                                        IF crypt THEN ns[1] ELSE 1),
                              buf, pos + BL + LSize + n.n,
                              IF crypt THEN Tail(ns) ELSE ns,
                              short \/ Len(value) < n.n)

(***************************************************************************)
(* PdbEntries.                                                             *)
(***************************************************************************)
\* the inner loop of gather: fields are stored with set_field_raw
RECURSIVE gather_fields(_, _, _)
gather_fields(e, buf, pos) ==
    LET ident == read(buf, pos, BL)
    IN  IF ident = <<NUL>>
        THEN [e |-> e, pos |-> pos + BL, err |-> "none"]
        ELSE LET n == sunpack(buf, pos + BL)
             IN  IF n.err # "none"
                 THEN [e |-> e, pos |-> pos, err |-> n.err]
                 ELSE gather_fields(
                          set_field_raw(e, ident[1],
                                        read(buf, pos + BL + LSize, n.n)),
                          buf, pos + BL + LSize + n.n)

\* the outer loop of gather: new is what was appended to self.ents so far,
\* id the class counter, bad the entry the loop raised on
RECURSIVE gather_loop(_, _, _, _, _)
gather_loop(buf, pos, kind, id, new) ==
    LET h == read(buf, pos, DS)
    IN  IF h = <<>>
        THEN [new |-> new, id |-> id, err |-> "none", bad |-> <<>>]
        ELSE LET p == gather_fields(new_entry(kind, id, h), buf, pos + DS)
             IN  IF p.err # "none"
                 THEN [new |-> new, id |-> id + 1, err |-> p.err, bad |-> <<p.e>>]
                 ELSE IF admit(p.e) # "none"
                 THEN [new |-> new, id |-> id + 1, err |-> admit(p.e),
                       bad |-> <<p.e>>]
                 ELSE gather_loop(buf, p.pos, kind, id + 1, Append(new, p.e))

gather(buf, kind, id) ==
    IF buf = <<>>
    THEN [new |-> <<>>, id |-> id, err |-> "none", bad |-> <<>>]
    ELSE gather_loop(buf, 1, kind, id, <<>>)

\* add_entry that appends before it checks
add_entry_first(l, e, o) == Append(l, o)

\* add_entry on the list l with the entry e held at reference o
add_entry(l, e, o) == IF admit(e) = "none" THEN Append(l, o) ELSE l

RECURSIVE db_entries(_, _)
db_entries(heap, l) ==
    IF l = <<>> THEN <<>>
    ELSE full_entry(heap[l[1]]) \o db_entries(heap, Tail(l))

(***************************************************************************)
(* What a commit leaves for later comparison: the raw mapping of every     *)
(* entry written, and where each record's field area lies in the blob.     *)
(***************************************************************************)
Snapshot(heap, l) ==
    [i \in 1..Len(l) |->
        [kind |-> heap[l[i]].kind, fields |-> heap[l[i]].fields,
         ok |-> hash_ok(heap[l[i]])]]

RECURSIVE Areas(_, _, _)
Areas(heap, l, start) ==
    IF l = <<>> THEN <<>>
    ELSE LET e == heap[l[1]]
             lo == start + Len(e.ehash)
             hi == lo + Len(entry(e)) - 1
         IN  <<[lo |-> lo, hi |-> hi]>> \o Areas(heap, Tail(l), hi + 1 + BL)

(***************************************************************************)
(* Inputs.                                                                 *)
(***************************************************************************)
Values == UNION {[1..k -> {PB(7)}] : k \in 0..MaxLen}

Longest == [i \in 1..MaxLen |-> PB(7)]

FieldNames == {FN, FU, FP, FR}

\* field mappings handed to the constructor, or encoded and then parsed
Templates ==
    { << <<NUL, Longest>> >>,
      << <<FN, Longest>>, <<FU, <<>>>> >>,
      << <<FN, Longest>>, <<FU, Longest>>, <<FP, <<>>>>, <<FR, <<>>>> >> }

\* what the caller builds of each variant
Built(kind) ==
    IF kind = "raw"
    THEN {t \in Templates : Len(t) < Len(all_fields)}
    ELSE {t \in Templates : t[1][1] # NUL}

NonceSeqs == [1..2 -> Nonces]

TamperBytes == {PB(0), PB(1), PB(2), PB(7), FN, FU}

Threads == {1, 2}

NoArg == [o |-> 0]

(***************************************************************************)
(* The collection model: one header, one collection, entries built by the  *)
(* caller and by gather.                                                   *)
(***************************************************************************)
IdleThreads ==
    /\ pc = [t \in Threads |-> "idle"]
    /\ loc = [t \in Threads |-> 0]
    /\ made = [t \in Threads |-> <<>>]

Init ==
    /\ entry_id = 0
    /\ objs = <<>>
    /\ ents = <<>>
    /\ blob = <<>>
    /\ op = "init"
    /\ err = "none"
    /\ arg = NoArg
    /\ snap = <<>>
    /\ areas = <<>>
    /\ tam = 0
    /\ nsets = 0
    /\ IdleThreads

\* e = entry_t(head, fields=t)
NewEntry(kind, t, ns) ==
    /\ Len(objs) < MaxObjs
    /\ entry_id < MaxObjs      \* the caller builds the first MaxObjs entries
    /\ objs' = Append(objs, init_fields(new_entry(kind, entry_id, <<>>), t, ns))
    /\ entry_id' = entry_id + 1
    /\ op' = "new"
    /\ err' = "none"
    /\ arg' = [o |-> Len(objs) + 1]
    /\ UNCHANGED <<ents, blob, snap, areas, tam, nsets, pc, loc, made>>

\* objs[o][name] = value
SetField(o, name, value, nonce) ==
    /\ objs' = [objs EXCEPT ![o] = set_field(@, name, value, nonce)]
    /\ op' = "set_field"
    /\ err' = "none"
    /\ arg' = [o |-> o, name |-> name, value |-> value]
    /\ UNCHANGED <<entry_id, ents, blob, snap, areas, tam, pc, loc, made>>

Rehash(o) ==
    /\ objs[o] # rehash(objs[o])
    /\ objs' = [objs EXCEPT ![o] = rehash(@)]
    /\ op' = "rehash"
    /\ err' = "none"
    /\ arg' = [o |-> o]
    /\ UNCHANGED <<entry_id, ents, blob, snap, areas, tam, nsets, pc, loc, made>>

AddEntry(o) ==
    /\ Len(ents) < MaxObjs
    /\ ents' = add_entry(ents, objs[o], o)
    /\ op' = "add_entry"
    /\ err' = admit(objs[o])
    /\ arg' = [o |-> o, pre |-> ents]
    /\ UNCHANGED <<entry_id, objs, blob, snap, areas, tam, nsets, pc, loc, made>>

Commit ==
    /\ blob' = db_entries(objs, ents)
    /\ snap' = Snapshot(objs, ents)
    /\ areas' = Areas(objs, ents, 1)
    /\ tam' = 0
    /\ op' = "commit"
    /\ err' = "none"
    /\ arg' = NoArg
    /\ UNCHANGED <<entry_id, objs, ents, nsets, pc, loc, made>>

\* a fresh PdbEntries(head); the entries of the old one are dropped
Reload ==
    /\ objs # <<>>
    /\ objs' = <<>>
    /\ ents' = <<>>
    /\ op' = "reload"
    /\ err' = "none"
    /\ arg' = NoArg
    /\ UNCHANGED <<entry_id, blob, snap, areas, tam, nsets, pc, loc, made>>

\* one byte of the field area of record k of the stored blob is changed
Tamper(k, i, v) ==
    /\ tam = 0
    /\ i \in areas[k].lo..areas[k].hi
    /\ blob[i] # v
    /\ blob' = [blob EXCEPT ![i] = v]
    /\ tam' = k
    /\ op' = "tamper"
    /\ err' = "none"
    /\ arg' = NoArg
    /\ UNCHANGED <<entry_id, objs, ents, snap, areas, nsets, pc, loc, made>>

Gather(kind) ==
    LET g == gather(blob, kind, entry_id)
    IN  /\ g.id <= MaxIds
        /\ Len(objs) + Len(g.new) <= MaxObjs
        /\ objs' = objs \o g.new
        /\ ents' = ents \o [i \in 1..Len(g.new) |-> Len(objs) + i]
        /\ entry_id' = g.id
        /\ op' = "gather"
        /\ err' = g.err
        /\ arg' = [o |-> 0, kind |-> kind, pre |-> ents, bad |-> g.bad]
        /\ UNCHANGED <<blob, snap, areas, tam, nsets, pc, loc, made>>

Next ==
    \/ \E kind \in Kinds : \E t \in Built(kind), ns \in NonceSeqs :
            NewEntry(kind, t, ns)
    \/ \E o \in 1..Len(objs), name \in {FR}, value \in Values,
          nonce \in Nonces :
            /\ nsets < MaxSets
            /\ nsets' = nsets + 1
            /\ SetField(o, name, value, nonce)
    \/ \E o \in 1..Len(objs) : Rehash(o)
    \/ \E o \in 1..Len(objs) : AddEntry(o)
    \/ Commit
    \/ Reload
    \/ \E kind \in Kinds : Gather(kind)

Spec == Init /\ [][Next]_vars

(***************************************************************************)
(* The stored-blob model: a collection of one variant was built from the   *)
(* templates, committed and dropped; one byte of the blob is then changed  *)
(* and the blob is gathered.                                               *)
(***************************************************************************)
TemplateLists(kind) ==
    UNION {[1..n -> Built(kind)] : n \in 1..MaxObjs}

Stored(kind, l, ns) ==
    [i \in 1..Len(l) |-> rehash(init_fields(new_entry(kind, i - 1, <<>>), l[i], ns))]

InitStored ==
    \E kind \in Kinds : \E l \in TemplateLists(kind), ns \in NonceSeqs :
        LET heap == Stored(kind, l, ns)
            refs == [i \in 1..Len(l) |-> i]
        IN  /\ \A i \in 1..Len(l) : admit(heap[i]) = "none"
            /\ entry_id = Len(l)
            /\ objs = <<>>
            /\ ents = <<>>
            /\ blob = db_entries(heap, refs)
            /\ snap = Snapshot(heap, refs)
            /\ areas = Areas(heap, refs, 1)
            /\ tam = 0
            /\ op = "reload"
            /\ err = "none"
            /\ arg = NoArg
            /\ nsets = 0
            /\ IdleThreads

NextStored ==
    \/ \E k \in 1..Len(areas), i \in 1..Len(blob), v \in TamperBytes :
            Tamper(k, i, v)
    \/ \E kind \in Kinds : Gather(kind)

SpecStored == InitStored /\ [][NextStored]_vars

(***************************************************************************)
(* The entry model: one entry, its fields set one by one or parsed from an *)
(* encoded record that may be cut short.                                   *)
(***************************************************************************)
Record(t) == encode(t) \o <<NUL>>

InitEntry ==
    \E kind \in Kinds :
        /\ entry_id = 1
        /\ objs = <<new_entry(kind, 0, <<>>)>>
        /\ ents = <<>>
        /\ blob = <<>>
        /\ op = "new"
        /\ err = "none"
        /\ arg = [o |-> 1]
        /\ snap = <<>>
        /\ areas = <<>>
        /\ tam = 0
        /\ nsets = 0
        /\ IdleThreads

\* objs[o].from_entry(the first cut bytes of the record of t), on an entry
\* that was just constructed
FromEntry(o, t, cut, ns) ==
    LET r == from_entry(objs[o], SubSeq(Record(t), 1, cut), 1, ns, FALSE)
    IN  /\ objs[o].fields = <<>>
        /\ objs' = [objs EXCEPT ![o] = r.e]
        /\ op' = "from_entry"
        /\ err' = r.err
        /\ arg' = [o |-> o, t |-> t, cut |-> cut, short |-> r.short]
        /\ UNCHANGED <<entry_id, ents, blob, snap, areas, tam, nsets, pc, loc, made>>

NextEntry ==
    \/ \E name \in FieldNames, value \in Values, nonce \in Nonces :
            /\ SetField(1, name, value, nonce)
            /\ UNCHANGED nsets
    \/ \E t \in Templates, ns \in NonceSeqs : \E cut \in 0..Len(Record(t)) :
            FromEntry(1, t, cut, ns)

SpecEntry == InitEntry /\ [][NextEntry]_vars

(***************************************************************************)
(* The constructor model: two threads run PdbEntry.__init__ side by side.  *)
(* Line 24 reads the counter into the new entry; line 25 loads the counter *)
(* and then stores the loaded value plus one.                              *)
(***************************************************************************)
InitIds ==
    /\ entry_id = 0
    /\ objs = <<>>
    /\ ents = <<>>
    /\ blob = <<>>
    /\ op = "init"
    /\ err = "none"
    /\ arg = NoArg
    /\ snap = <<>>
    /\ areas = <<>>
    /\ tam = 0
    /\ nsets = 0
    /\ pc = [t \in Threads |-> "read"]
    /\ loc = [t \in Threads |-> 0]
    /\ made = [t \in Threads |-> <<>>]

Quiet == UNCHANGED <<objs, ents, blob, op, err, arg, snap, areas, tam, nsets>>

\* self.entry_id = PdbEntry.entry_id
ReadId(t) ==
    /\ pc[t] = "read"
    /\ Len(made[t]) < MaxBuilt
    /\ made' = [made EXCEPT ![t] = Append(@, entry_id)]
    /\ pc' = [pc EXCEPT ![t] = "load"]
    /\ UNCHANGED <<entry_id, loc>>
    /\ Quiet

\* PdbEntry.entry_id += 1, the load
LoadId(t) ==
    /\ pc[t] = "load"
    /\ loc' = [loc EXCEPT ![t] = entry_id]
    /\ pc' = [pc EXCEPT ![t] = "store"]
    /\ UNCHANGED <<entry_id, made>>
    /\ Quiet

\* PdbEntry.entry_id += 1, the store
StoreId(t) ==
    /\ pc[t] = "store"
    /\ entry_id' = loc[t] + 1
    /\ pc' = [pc EXCEPT ![t] = "read"]
    /\ UNCHANGED <<loc, made>>
    /\ Quiet

NextIds ==
    \/ \E t \in Threads : ReadId(t)
    \/ \E t \in Threads : LoadId(t)
    \/ \E t \in Threads : StoreId(t)

SpecIds == InitIds /\ [][NextIds]_vars

(***************************************************************************)
(* Properties.                                                             *)
(***************************************************************************)
Complete(e) == \A i \in 1..Len(all_fields) : Contains(e, all_fields[i])

NoSentinelName(fields) == \A i \in 1..Len(fields) : fields[i][1] # NUL

\* C1: every reference that add_entry or gather appends is to an entry whose
\* tag matches its fields and whose structure check passes, and an add_entry
\* that raises leaves the list as it was
AdmittedOnlyAfterGates ==
    /\ op = "add_entry" =>
        /\ err # "none" => ents = arg.pre
        /\ err = "none" =>
            /\ ents = Append(arg.pre, arg.o)
            /\ hash_ok(objs[arg.o])
            /\ validate_struct(objs[arg.o]) = "none"
    /\ op = "gather" =>
        /\ SubSeq(ents, 1, Len(arg.pre)) = arg.pre
        /\ \A i \in (Len(arg.pre) + 1)..Len(ents) :
            /\ hash_ok(objs[ents[i]])
            /\ validate_struct(objs[ents[i]]) = "none"

AdmittedWitness ==
    /\ op = "gather"
    /\ err = "none"
    /\ Len(ents) = Len(arg.pre) + 2

\* C2, with the kind of error widened: a gather of the variant the blob was
\* committed with, over the blob with one byte of one field area changed,
\* raises DataIntegrityError or FormatError and admits no record from the
\* changed one on
ChangedByteCase ==
    /\ op = "gather"
    /\ tam > 0
    /\ \A i \in 1..Len(snap) : snap[i].kind = arg.kind /\ snap[i].ok

GatherAllOrNothing ==
    (op = "gather" /\ err # "none"
        /\ \A i \in 1..Len(snap) : NoSentinelName(snap[i].fields))
        => ents = arg.pre

\* C4: parsing a record cut short before its sentinel ends with FormatError
\* and stores no value shorter than its length prefix declares
CutShortCase ==
    /\ op = "from_entry"
    /\ NoSentinelName(arg.t)
    /\ arg.cut < Len(Record(arg.t))

CutShortIsFormatError ==
    CutShortCase => (err = "FormatError" /\ ~arg.short)

\* C5, for field names other than the sentinel: a commit of entries whose
\* tags are current, gathered with their variant into an empty list, gives
\* back the same raw field mappings in the same order
RoundTripCase ==
    /\ op = "gather"
    /\ tam = 0
    /\ arg.pre = <<>>
    /\ blob # <<>>
    /\ \A i \in 1..Len(snap) : snap[i].kind = arg.kind /\ snap[i].ok

RoundTripResult ==
    /\ err = "none"
    /\ Len(ents) = Len(snap)
    /\ \A i \in 1..Len(snap) : objs[ents[i]].fields = snap[i].fields

RoundTripNamed ==
    (RoundTripCase /\ \A i \in 1..Len(snap) : NoSentinelName(snap[i].fields))
        => RoundTripResult

RoundTripWitness ==
    /\ RoundTripCase
    /\ RoundTripResult
    /\ Len(snap) = 2
    /\ snap[1].fields # snap[2].fields
    /\ \E i \in 1..Len(snap[1].fields) : snap[1].fields[i][2] = <<>>

\* C5 as stated: any field names
RoundTripAnyName == RoundTripCase => RoundTripResult

\* C6: an entry whose tag does not match is refused with DataIntegrityError,
\* also when it lacks a required field
GateOrder ==
    /\ (op = "add_entry" /\ ~hash_ok(objs[arg.o])) => err = "DataIntegrityError"
    /\ (op = "gather" /\ arg.bad # <<>> /\ err # "FormatError"
            /\ ~hash_ok(arg.bad[1])) => err = "DataIntegrityError"

GateOrderWitness ==
    /\ op = "gather"
    /\ arg.bad # <<>>
    /\ err = "DataIntegrityError"
    /\ validate_struct(arg.bad[1]) = "StructureError"
    /\ arg.bad[1].fields # <<>>

\* C7: a Password entry with a matching tag is refused with StructureError
\* exactly when one of n, u, p, r is absent, and every Password entry in the
\* list has all four
PasswordEntriesComplete ==
    /\ \A i \in 1..Len(ents) :
        objs[ents[i]].kind = "pwd" => Complete(objs[ents[i]])
    /\ (op = "add_entry" /\ objs[arg.o].kind = "pwd" /\ hash_ok(objs[arg.o])) =>
        /\ err = "StructureError" <=> ~Complete(objs[arg.o])
        /\ err = "none" <=> Complete(objs[arg.o])
    /\ (op = "gather" /\ arg.kind = "pwd" /\ arg.bad # <<>>
            /\ err # "FormatError" /\ hash_ok(arg.bad[1])) =>
        (err = "StructureError" /\ ~Complete(arg.bad[1]))

PasswordCompleteWitness ==
    /\ op = "add_entry"
    /\ err = "none"
    /\ objs[arg.o].kind = "pwd"
    /\ get_field_raw(objs[arg.o], FR).v = <<>>
    /\ nsets > 0

\* C8: on a Password entry, set_field(u or p, X) stores a cipher output that
\* get_field turns back into X and that differs from a non-empty X;
\* set_field(n or r, X) stores X itself
SelectiveEncryption ==
    (op = "set_field" /\ objs[arg.o].kind = "pwd") =>
        LET e == objs[arg.o]
            got == get_field(e, arg.name)
            raw == get_field_raw(e, arg.name)
        IN  /\ got = [err |-> "none", v |-> arg.value]
            /\ raw.err = "none"
            /\ arg.name \in {FU, FP} =>
                /\ \E k \in Nonces : raw.v = encrypt_secure(arg.value, k)
                /\ arg.value # <<>> => raw.v # arg.value
            /\ arg.name \in {FN, FR} => raw.v = arg.value

SelectiveEncryptionWitness ==
    /\ op = "set_field"
    /\ objs[arg.o].kind = "pwd"
    /\ arg.name = FU
    /\ arg.value # <<>>
    /\ Contains(objs[arg.o], FP)

\* C9: no two entries constructed have the same entry_id
AllIds == {<<t, i>> : t \in Threads, i \in 1..MaxBuilt}

EntryIdsUnique ==
    \A x, y \in AllIds :
        (x # y /\ x[2] <= Len(made[x[1]]) /\ y[2] <= Len(made[y[1]]))
            => made[x[1]][x[2]] # made[y[1]][y[2]]

\* C10: a Password entry filled by from_entry holds the parsed values as
\* they were, so its encoded field area is the field bytes that were parsed
ParsedStoredAsGiven ==
    (op = "from_entry" /\ err = "none" /\ NoSentinelName(arg.t)
        /\ objs[arg.o].kind = "pwd")
        => entry(objs[arg.o]) \o <<NUL>> = Record(arg.t)

====
